---- MODULE Spec2Model ----
(***************************************************************************)
(* Model of the recursive task dispatch of the `check` command             *)
(* (crates/xtask-common/src/commands/check.rs): handle_command and the     *)
(* run_audit / run_compile / run_format / run_lint / run_typos leaves.     *)
(*                                                                         *)
(* The call tree is executed by an explicit stack of frames: the head      *)
(* frame is the call that runs next, the frames behind it are the calls    *)
(* still pending in the enclosing try_for_each / for loops.  Every effect  *)
(* the code has on its collaborators (warning, prompt, tool installation,  *)
(* log group, external process) is appended to `log` in program order.     *)
(*                                                                         *)
(* The attribute macros of crates/tracel-xtask-macros/src/lib.rs are       *)
(* modelled as operators from their arguments and annotated item to the    *)
(* tokens they return; MacroSpec follows one use of one macro and the      *)
(* calls of the conversion it generates.                                   *)
(***************************************************************************)
EXTENDS Integers, Sequences, FiniteSets, TLC

(* ------------------------------ bounds --------------------------------- *)

\* number of workspace members of type Crate
MaxCrates == 2
\* number of workspace members of type Example
MaxExamples == 1
\* largest number of names given to --exclude and to --only
MaxFilter == 2

Min(a, b) == IF a < b THEN a ELSE b

Range(s) == {s[i] : i \in DOMAIN s}

CratePool == <<"alpha", "beta", "gamma", "delta">>

ExamplePool == <<"ex1", "ex2", "ex3">>

\* names a caller can put in --exclude / --only: members and a non-member
FilterNames == {"alpha", "beta", "ex1", "foo"}

\* exclude and only are Vec<String> that the code only tests with is_empty()
\* and contains(): they are modelled as the sets of their elements
Filters == {s \in SUBSET FilterNames : Cardinality(s) <= MaxFilter}

(* --------------------------- vocabularies ------------------------------ *)

\* enum CheckCommand, in declaration order (what CheckCommand::iter() yields)
CheckCommandIter == <<"Audit", "Compile", "Format", "Lint", "Typos", "All">>

\* enum Target, in declaration order (what Target::iter() yields)
TargetIter == <<"AllPackages", "Crates", "Examples", "Workspace">>

\* Option<bool>
None == "None"

Some(b) == IF b THEN "SomeTrue" ELSE "SomeFalse"

OptionBool == {None, Some(TRUE), Some(FALSE)}

is_none(a) == a = None

unwrap(a) == a = Some(TRUE)

(* ----------------------------- collaborators --------------------------- *)

\* utils::workspace::get_workspace_members: the members of one category, in
\* the collaborator's enumeration order
get_workspace_members(target) ==
    IF target = "Crates"
    THEN SubSeq(CratePool, 1, Min(MaxCrates, Len(CratePool)))
    ELSE SubSeq(ExamplePool, 1, Min(MaxExamples, Len(ExamplePool)))

\* the filter run_process_for_package applies to its package
included(name, exclude, only) ==
    (only = {} \/ name \in only) /\ name \notin exclude

\* utils::prompt::ask_once: the first call prompts and caches the reply,
\* every later call returns the cached reply
ask_once(cached, input) ==
    IF cached = "unset" THEN input ELSE cached = "true"

AnswerCache(cached, input) ==
    IF cached = "unset" THEN (IF input THEN "true" ELSE "false") ELSE cached

(* -------------------------------- state -------------------------------- *)

VARIABLES
    args,       \* CheckCmdArgs of the top-level call
    answer,     \* the Option<bool> handed to the top-level call
    stack,      \* calls still to run, innermost pending call first
    log,        \* effects on the collaborators, in program order
    result,     \* result of the top-level call
    ANSWER,     \* cache of ask_once: "unset", "true" or "false"
    expansion,  \* the last use of an attribute macro and the tokens it returned
    conversion  \* the last call of a generated try_into and what it returned

vars == <<args, answer, stack, log, result, ANSWER, expansion, conversion>>

\* the dispatch of `check` runs in a built binary: it expands no macro
macroVars == <<expansion, conversion>>

\* expanding a macro runs no command
checkVars == <<args, answer, stack, log, result, ANSWER>>

Frame(pc, command, target, exclude, only, ans, depth, sub, members) ==
    [pc |-> pc, command |-> command, target |-> target, exclude |-> exclude,
     only |-> only, answer |-> ans, depth |-> depth, sub |-> sub,
     members |-> members]

\* one effect: ev names the collaborator call, leaf the subcommand that makes
\* it, scope its target / package / tool, res its outcome or argument
E(ev, leaf, scope, exclude, only, res, depth) ==
    [ev |-> ev, leaf |-> leaf, scope |-> scope, exclude |-> exclude,
     only |-> only, res |-> res, depth |-> depth]

Running == [status |-> "running", leaf |-> "-", scope |-> "-"]

OkResult == [status |-> "ok", leaf |-> "-", scope |-> "-"]

NoErr == [status |-> "none", leaf |-> "-", scope |-> "-"]

\* the anyhow error of a failed external step, with its context
Err(leaf, scope) == [status |-> "err", leaf |-> leaf, scope |-> scope]

ResStr(ok) == IF ok THEN "ok" ELSE "err"

\* variant of Propagate that drops the error and goes on with what is pending
PropagateNone(pending) == pending

\* the `?` operator and try_for_each: an Err leaves every enclosing loop and
\* call, nothing that was pending runs
Propagate(pending) == <<>>

\* end of one step: events logged, the pending calls replaced, an error
\* (if any) propagated to the top-level caller
Commit(events, pending, err) ==
    /\ log' = log \o events
    /\ stack' = IF err.status = "err" THEN Propagate(pending) ELSE pending
    /\ result' = IF err.status = "err" THEN err
                 ELSE IF pending = <<>> THEN OkResult ELSE result

(* ------------------------------ handle_command ------------------------- *)

WARN_IGNORED_ONLY_ARGS == "WARN_IGNORED_ONLY_ARGS"

WARN_IGNORED_EXCLUDE_AND_ONLY_ARGS == "WARN_IGNORED_EXCLUDE_AND_ONLY_ARGS"

\* variant of Warnings that applies the same test to every subcommand
WarningsSymmetric(f) ==
    IF ~is_none(f.answer) THEN <<>>
    ELSE IF f.target = "Workspace" /\ (f.exclude # {} \/ f.only # {})
         THEN <<E("warn", f.command, f.target, f.exclude, f.only,
                   WARN_IGNORED_EXCLUDE_AND_ONLY_ARGS, f.depth)>>
         ELSE <<>>

\* check.rs 64-79
Warnings(f) ==
    IF ~is_none(f.answer) THEN <<>>
    ELSE IF f.command = "Compile"
         THEN IF f.target = "Workspace" /\ f.only # {}
              THEN <<E("warn", f.command, f.target, f.exclude, f.only,
                        WARN_IGNORED_ONLY_ARGS, f.depth)>>
              ELSE <<>>
         ELSE IF f.target = "Workspace" /\ (f.exclude # {} \/ f.only # {})
              THEN <<E("warn", f.command, f.target, f.exclude, f.only,
                        WARN_IGNORED_EXCLUDE_AND_ONLY_ARGS, f.depth)>>
              ELSE <<>>

\* the call of ask_once and, when nothing is cached, the prompt it shows
AskEvents(f, cached, input) ==
    <<E("ask_once", f.command, f.target, {}, {},
        Some(ask_once(cached, input)), f.depth)>>
    \o (IF cached = "unset"
        THEN <<E("prompt", f.command, f.target, {}, {}, Some(input), f.depth)>>
        ELSE <<>>)

\* check.rs 90-91: the leaves of All
NotAll(c) == c # "All"

\* variant of LeafCommands that walks the leaves backwards
LeafCommandsReversed ==
    [i \in 1..(Len(CheckCommandIter) - 1) |->
        SelectSeq(CheckCommandIter, NotAll)[Len(CheckCommandIter) - i]]

\* variant of LeafCommands that leaves the read-only Compile out as well
NotAllNorCompile(c) == c # "All" /\ c # "Compile"

LeafCommandsNoCompile == SelectSeq(CheckCommandIter, NotAllNorCompile)

LeafCommands == SelectSeq(CheckCommandIter, NotAll)

\* variant of AllAnswer that hands the leaves the answer All was called with
AllAnswerIncoming(incoming, asked) == incoming

\* check.rs 87, 100: the answer All hands to its leaves
AllAnswer(incoming, asked) == Some(asked)

\* check.rs 80-85: the function a leaf subcommand is dispatched to
RunPc(command) ==
    CASE command = "Audit" -> "run_audit"
      [] command = "Compile" -> "run_compile"
      [] command = "Format" -> "run_format"
      [] command = "Lint" -> "run_lint"
      [] command = "Typos" -> "run_typos"

\* check.rs 92-102: one recursive handle_command per leaf
LeafFrames(f, ans) ==
    [i \in 1..Len(LeafCommands) |->
        Frame("handle_command", LeafCommands[i], f.target, f.exclude, f.only,
              ans, f.depth + 1, FALSE, <<>>)]

HandleCommand ==
    /\ stack # <<>>
    /\ Head(stack).pc = "handle_command"
    /\ LET f == Head(stack)
           rest == Tail(stack)
           call == <<E("handle_command", f.command, f.target, f.exclude,
                       f.only, f.answer, f.depth)>>
       IN IF f.command = "All"
          THEN \E input \in BOOLEAN :
                 /\ ANSWER' = AnswerCache(ANSWER, input)
                 /\ Commit(call \o Warnings(f) \o AskEvents(f, ANSWER, input),
                           LeafFrames(f, AllAnswer(f.answer,
                                                   ask_once(ANSWER, input)))
                             \o rest,
                           NoErr)
          ELSE /\ ANSWER' = ANSWER
               /\ Commit(call \o Warnings(f),
                         <<Frame(RunPc(f.command), f.command, f.target,
                                 f.exclude, f.only, f.answer, f.depth, FALSE,
                                 <<>>)>> \o rest,
                         NoErr)
    /\ UNCHANGED <<args, answer>>
    /\ UNCHANGED macroVars

(* --------------------------- run_audit, run_typos ---------------------- *)

\* the local `answer` after `if answer.is_none() { answer = Some(ask_once(..)) }`
Resolved(ans, cached, input) ==
    IF is_none(ans) THEN Some(ask_once(cached, input)) ELSE ans

AskLog(f, cached, input) ==
    IF is_none(f.answer) THEN AskEvents(f, cached, input) ELSE <<>>

ResolvedCache(ans, cached, input) ==
    IF is_none(ans) THEN AnswerCache(cached, input) ELSE cached

\* check.rs 114, 360: the tool the leaf installs first
ToolCrate(leaf) == IF leaf = "Audit" THEN "cargo-audit" ELSE "typos-cli"

\* variant of ToolEvents that runs the tool once per member of type Crate
ToolEventsPerPackage(leaf, depth, out) ==
    <<E("ensure_cargo_crate_is_installed", leaf, ToolCrate(leaf), {}, {},
        ResStr(out # "install_err"), depth)>>
    \o (IF out = "install_err" THEN <<>>
        ELSE LET members == get_workspace_members("Crates")
             IN  [i \in 1..Len(members) |->
                     E("run_process_for_package", leaf, members[i], {}, {},
                       ResStr(out = "ok"), depth)])

\* check.rs 114-122, 360-368: install the tool, open the group, run it, close
\* the group; `out` is the outcome of the two external steps
ToolEvents(leaf, depth, out) ==
    <<E("ensure_cargo_crate_is_installed", leaf, ToolCrate(leaf), {}, {},
        ResStr(out # "install_err"), depth)>>
    \o (IF out = "install_err" THEN <<>>
        ELSE <<E("group", leaf, leaf, {}, {}, "-", depth),
               E("run_process", leaf, "Workspace", {}, {},
                 ResStr(out = "ok"), depth)>>
             \o (IF out = "ok"
                 THEN <<E("endgroup", leaf, leaf, {}, {}, "-", depth)>>
                 ELSE <<>>))

\* check.rs 113, 359: the guard of the mutating tool run
ToolProceeds(ans) == unwrap(ans)

RunTool(leaf) ==
    /\ stack # <<>>
    /\ Head(stack).pc = RunPc(leaf)
    /\ LET f == Head(stack)
           rest == Tail(stack)
       IN \E input \in BOOLEAN, out \in {"ok", "install_err", "run_err"} :
            /\ ANSWER' = ResolvedCache(f.answer, ANSWER, input)
            /\ IF ToolProceeds(Resolved(f.answer, ANSWER, input))
               THEN Commit(AskLog(f, ANSWER, input)
                             \o ToolEvents(leaf, f.depth, out),
                           rest,
                           IF out = "ok" THEN NoErr
                           ELSE Err(leaf, IF out = "install_err"
                                          THEN ToolCrate(leaf)
                                          ELSE "Workspace"))
               ELSE Commit(AskLog(f, ANSWER, input), rest, NoErr)
    /\ UNCHANGED <<args, answer>>
    /\ UNCHANGED macroVars

RunAudit == RunTool("Audit")

RunTypos == RunTool("Typos")

(* ---------------------- run_compile, run_format, run_lint -------------- *)

\* check.rs 172, 247, 345: the sub-targets of AllPackages
IsSubTarget(t) == t # "AllPackages" /\ t # "Workspace"

\* variant of SubTargets that only filters AllPackages out
NotAllPackages(t) == t # "AllPackages"

SubTargetsWithWorkspace == SelectSeq(TargetIter, NotAllPackages)

\* variant of SubTargets that only filters Workspace out
NotWorkspace(t) == t # "Workspace"

SubTargetsWithAllPackages == SelectSeq(TargetIter, NotWorkspace)

SubTargets == SelectSeq(TargetIter, IsSubTarget)

\* variant of SubAnswer that lets every sub-target resolve its own answer
SubAnswerNone(leaf, ans) == None

\* check.rs 173, 248, 346: the answer handed to each sub-target
SubAnswer(leaf, ans) == IF leaf = "Compile" THEN None ELSE ans

\* check.rs 173, 248, 346: the filters handed to each sub-target
SubFilters(exclude, only) == <<exclude, only>>

SubFrames(f, ans) ==
    [i \in 1..Len(SubTargets) |->
        Frame(f.pc, f.command, SubTargets[i],
              SubFilters(f.exclude, f.only)[1],
              SubFilters(f.exclude, f.only)[2],
              SubAnswer(f.command, ans), f.depth + 1, TRUE, <<>>)]

\* entry of a run_* call made for a sub-target of AllPackages
SubEvent(f) ==
    IF f.sub
    THEN <<E("run_sub", f.command, f.target, f.exclude, f.only, f.answer,
             f.depth)>>
    ELSE <<>>

\* variant of WorkspaceExcluded that hands the exclude list for every leaf
WorkspaceExcludedAlways(leaf, exclude) == exclude

\* check.rs 142, 197, 283: the exclude list handed to run_process_for_workspace
WorkspaceExcluded(leaf, exclude) == IF leaf = "Compile" THEN exclude ELSE {}

\* check.rs 138-146, 193-201, 269-287
WorkspaceEvents(f, ok) ==
    <<E("group", f.command, "Workspace", {}, {}, "-", f.depth),
      E("run_process_for_workspace", f.command, "Workspace",
        WorkspaceExcluded(f.command, f.exclude), {}, ResStr(ok), f.depth)>>
    \o (IF ok THEN <<E("endgroup", f.command, "Workspace", {}, {}, "-",
                       f.depth)>>
        ELSE <<>>)

MemberPc(leaf) ==
    CASE leaf = "Compile" -> "compile_member"
      [] leaf = "Format" -> "format_member"
      [] leaf = "Lint" -> "lint_member"

\* variant of MemberFrames that always asks for the members of type Crate
MemberFramesCrates(f) ==
    IF get_workspace_members("Crates") = <<>> THEN <<>>
    ELSE <<Frame(MemberPc(f.command), f.command, f.target, f.exclude, f.only,
                 f.answer, f.depth, FALSE, get_workspace_members("Crates"))>>

\* the `for member in members` loop still to run, if it has any iteration
MemberFrames(f) ==
    IF get_workspace_members(f.target) = <<>> THEN <<>>
    ELSE <<Frame(MemberPc(f.command), f.command, f.target, f.exclude, f.only,
                 f.answer, f.depth, FALSE, get_workspace_members(f.target))>>

\* check.rs 136-175 once the call is known to proceed (also 185-251, 261-349)
Scope(f, rest, events) ==
    CASE f.target = "Workspace" ->
           \E ok \in BOOLEAN :
              Commit(events \o WorkspaceEvents(f, ok), rest,
                     IF ok THEN NoErr ELSE Err(f.command, "Workspace"))
      [] f.target \in {"Crates", "Examples"} ->
           Commit(events, MemberFrames(f) \o rest, NoErr)
      [] f.target = "AllPackages" ->
           Commit(events, SubFrames(f, f.answer) \o rest, NoErr)

\* check.rs 133-135
CompileDeclined(ans) == ~is_none(ans) /\ ~unwrap(ans)

RunCompile ==
    /\ stack # <<>>
    /\ Head(stack).pc = "run_compile"
    /\ LET f == Head(stack)
           rest == Tail(stack)
       IN IF CompileDeclined(f.answer)
          THEN Commit(SubEvent(f), rest, NoErr)
          ELSE Scope(f, rest, SubEvent(f))
    /\ UNCHANGED <<args, answer, ANSWER>>
    /\ UNCHANGED macroVars

\* variant of FixProceeds that runs the fix whatever the confirmation is
FixProceedsAlways(ans) == TRUE

\* check.rs 192, 222, 245 (268, 308, 343): the guard of the mutating run
FixProceeds(ans) == unwrap(ans)

\* run_format and run_lint: the same text but for the external command
RunFix(leaf) ==
    /\ stack # <<>>
    /\ Head(stack).pc = RunPc(leaf)
    /\ LET f == Head(stack)
           rest == Tail(stack)
       IN \E input \in BOOLEAN :
            LET a == Resolved(f.answer, ANSWER, input)
                events == SubEvent(f) \o AskLog(f, ANSWER, input)
            IN /\ ANSWER' = ResolvedCache(f.answer, ANSWER, input)
               /\ IF FixProceeds(a)
                  THEN Scope([f EXCEPT !.answer = a], rest, events)
                  ELSE Commit(events, rest, NoErr)
    /\ UNCHANGED <<args, answer>>
    /\ UNCHANGED macroVars

RunFormat == RunFix("Format")

RunLint == RunFix("Lint")

\* check.rs 155-168, 223-236, 309-334: one iteration of the member loop
Member(leaf) ==
    /\ stack # <<>>
    /\ Head(stack).pc = MemberPc(leaf)
    /\ LET f == Head(stack)
           rest == Tail(stack)
           m == Head(f.members)
           pending == IF Tail(f.members) = <<>> THEN rest
                      ELSE <<[f EXCEPT !.members = Tail(f.members)]>> \o rest
           open == <<E("group", leaf, m, {}, {}, "-", f.depth)>>
           close == <<E("endgroup", leaf, m, {}, {}, "-", f.depth)>>
       IN IF included(m, f.exclude, f.only)
          THEN \E ok \in BOOLEAN :
                 Commit(open
                          \o <<E("run_process_for_package", leaf, m, f.exclude,
                                 f.only, ResStr(ok), f.depth)>>
                          \o (IF ok THEN close ELSE <<>>),
                        pending,
                        IF ok THEN NoErr ELSE Err(leaf, m))
          ELSE Commit(open
                        \o <<E("skip", leaf, m, f.exclude, f.only, "ok",
                               f.depth)>>
                        \o close,
                      pending, NoErr)
    /\ UNCHANGED <<args, answer, ANSWER>>
    /\ UNCHANGED macroVars

CompileMember == Member("Compile")

FormatMember == Member("Format")

LintMember == Member("Lint")

(* ------------------------- tracel-xtask-macros -------------------------- *)
(* The attribute macros are functions from (args, item) to a TokenStream.   *)
(* A token stream is modelled by what it declares: a compile_error!, an     *)
(* enum (its variants in order), a struct (its fields in order) and an      *)
(* impl TryInto (its match arms, or the fields of its struct literal).      *)

\* largest number of variants a host declares in the enum it annotates
MaxHost == 2
\* largest number of arguments a host lists in #[commands(..)]
MaxArgs == 2

\* syn::Variant: ident, whether it carries #[default], whether it has fields
Variant(ident, default, fields) ==
    [ident |-> ident, default |-> default, fields |-> fields]

Unit(ident) == Variant(ident, FALSE, FALSE)

DefaultUnit(ident) == Variant(ident, TRUE, FALSE)

Tuple(ident) == Variant(ident, FALSE, TRUE)

Idents(variants) == [i \in DOMAIN variants |-> variants[i].ident]

\* the four variants generate_target_enum writes before the host's
TargetVariants ==
    <<Unit("AllPackages"), Unit("Crates"), Unit("Examples"),
      DefaultUnit("Workspace")>>

\* variant_map of `commands`: every command but Validate carries its
\* arguments struct
variant_map ==
    [c \in {"Build", "Bump", "Fix", "Check", "Compile", "Coverage", "Doc",
            "Dependencies", "Publish", "Test", "Validate", "Vulnerabilities"}
        |-> IF c = "Validate" THEN Unit(c) ELSE Tuple(c)]

get_subcommand_variant_map ==
    [s \in {"BumpSubCommand", "CheckSubCommand", "CoverageSubCommand",
            "DependenciesSubCommand", "DocSubCommand", "FixSubCommand",
            "TestSubCommand", "VulnerabilitiesSubCommand"} |->
        CASE s = "BumpSubCommand" ->
                <<Unit("Major"), Unit("Minor"), Unit("Patch")>>
          [] s \in {"CheckSubCommand", "FixSubCommand"} ->
                <<DefaultUnit("All"), Unit("Audit"), Unit("Format"),
                  Unit("Lint"), Unit("Typos")>>
          [] s = "CoverageSubCommand" ->
                <<Unit("Install"), Tuple("Generate")>>
          [] s = "DependenciesSubCommand" ->
                <<DefaultUnit("All"), Unit("Deny"), Unit("Unused")>>
          [] s = "DocSubCommand" ->
                <<DefaultUnit("Build"), Unit("Tests")>>
          [] s = "TestSubCommand" ->
                <<DefaultUnit("All"), Unit("Unit"), Unit("Integration")>>
          [] s = "VulnerabilitiesSubCommand" ->
                <<DefaultUnit("All"), Unit("AddressSanitizer"),
                  Unit("ControlFlowIntegrity"), Unit("HWAddressSanitizer"),
                  Unit("KernelControlFlowIntegrity"), Unit("LeakSanitizer"),
                  Unit("MemorySanitizer"), Unit("MemTagSanitizer"),
                  Unit("NightlyChecks"), Unit("SafeStack"),
                  Unit("ShadowCallStack"), Unit("ThreadSanitizer")>>]

\* get_additional_cmd_args_map: fields added to a struct by its name
get_additional_cmd_args_map == [n \in {"TestCmdArgs"} |-> <<"threads">>]

\* the empty token stream
NoTokens ==
    [compile_error |-> FALSE, unknown |-> "", possible |-> {},
     has_enum |-> FALSE, variants |-> <<>>, derive_default |-> FALSE,
     has_struct |-> FALSE, fields |-> <<>>,
     has_tryinto |-> FALSE, into |-> "", arms |-> <<>>, literal |-> <<>>]

\* variant of CompileError whose message lists no name
CompileErrorUnlisted(unknown, possible) ==
    [NoTokens EXCEPT !.compile_error = TRUE, !.unknown = unknown]

\* compile_error!(..) naming the unknown item and the names it lists
CompileError(unknown, possible) ==
    [NoTokens EXCEPT !.compile_error = TRUE, !.unknown = unknown,
                     !.possible = possible]

\* compile_error!(..) with a fixed text (wrong number of arguments)
ArityError == CompileError("", {})

Enum(variants, derive_default) ==
    [NoTokens EXCEPT !.has_enum = TRUE, !.variants = variants,
                     !.derive_default = derive_default]

\* TokenStream::extend with an impl TryInto whose body is a match
ExtendWithMatch(output, into, arms) ==
    [output EXCEPT !.has_tryinto = TRUE, !.into = into, !.arms = arms]

generate_target_enum(item) == Enum(TargetVariants \o item.variants, TRUE)

generate_target_tryinto(output) ==
    ExtendWithMatch(output, "Target",
                    <<"AllPackages", "Crates", "Examples", "Workspace">>)

declare_targets(item) == generate_target_enum(item)

extend_targets(item) == generate_target_tryinto(generate_target_enum(item))

\* syn::Meta as `commands` reads it: its kind and the segments of its path
Meta(kind, path) == [kind |-> kind, path |-> path]

NoIdent == ""

\* syn::Path::get_ident: the identifier of a path of one segment
get_ident(path) == IF Len(path) = 1 THEN path[1] ELSE NoIdent

\* the `for arg in args` loop of `commands`: an argument that is not a path
\* of one identifier is passed over, an unknown identifier returns the error
RECURSIVE commands_loop(_, _)
commands_loop(margs, variants) ==
    IF margs = <<>>
    THEN Enum(variants, FALSE)
    ELSE LET arg == Head(margs)
             ident == get_ident(arg.path)
         IN  IF arg.kind = "Path" /\ ident # NoIdent
             THEN IF ident \in DOMAIN variant_map
                  THEN commands_loop(Tail(margs),
                                     Append(variants, variant_map[ident]))
                  ELSE CompileError(ident, DOMAIN variant_map)
             ELSE commands_loop(Tail(margs), variants)

commands(margs, item) ==
    LET listed == commands_loop(margs, <<>>)
    IN  IF listed.compile_error
        THEN listed
        ELSE Enum(listed.variants \o item.variants, FALSE)

HasDefault(variants) == \E i \in DOMAIN variants : variants[i].default

generate_subcommand_enum(subcommand, original_variants) ==
    IF subcommand \in DOMAIN get_subcommand_variant_map
    THEN LET base == get_subcommand_variant_map[subcommand]
         IN  Enum(base \o original_variants, HasDefault(base))
    ELSE NoTokens

generate_subcomand_tryinto(output, base_subcommand) ==
    ExtendWithMatch(output, base_subcommand,
                    Idents(get_subcommand_variant_map[base_subcommand]))

\* margs of the macros below are type names, each a path of one identifier
extend_subcommands(margs, item) ==
    IF Len(margs) # 1
    THEN ArityError
    ELSE IF margs[1] \notin DOMAIN get_subcommand_variant_map
         THEN CompileError(margs[1], DOMAIN get_subcommand_variant_map)
         ELSE generate_subcomand_tryinto(
                  generate_subcommand_enum(margs[1], item.variants), margs[1])

TypeOrNone(ty, then) == IF ty = "None" THEN <<>> ELSE then

AdditionalFields(struct_name) ==
    IF struct_name \in DOMAIN get_additional_cmd_args_map
    THEN get_additional_cmd_args_map[struct_name]
    ELSE <<>>

\* the struct of generate_command_args_struct for a target type and a
\* subcommand type, either of which may be None
Struct(struct_name, target_type, subcommand_type, original_fields) ==
    [NoTokens EXCEPT
        !.has_struct = TRUE,
        !.fields = TypeOrNone(target_type, <<"target", "exclude", "only">>)
                   \o AdditionalFields(struct_name)
                   \o TypeOrNone(subcommand_type, <<"command">>)
                   \o original_fields]

generate_command_args_struct(margs, item) ==
    IF margs = <<>>
    THEN [NoTokens EXCEPT !.has_struct = TRUE, !.fields = item.fields]
    ELSE IF Len(margs) = 2
         THEN LET output == Struct(item.ident, margs[1], margs[2], item.fields)
                  enum == generate_subcommand_enum(margs[2], <<>>)
              IN  IF margs[2] # "None"
                  THEN [output EXCEPT !.has_enum = enum.has_enum,
                                      !.variants = enum.variants,
                                      !.derive_default = enum.derive_default]
                  ELSE output
         ELSE IF Len(margs) = 3
              THEN Struct(item.ident, margs[2], margs[3], item.fields)
              ELSE ArityError

IsExcludeOrOnly(f) == f \in {"exclude", "only"}

generate_command_args_tryinto(margs, output) ==
    [output EXCEPT
        !.has_tryinto = TRUE,
        !.into = margs[1],
        !.literal =
            (IF "target" \in Range(output.fields) THEN <<"target">> ELSE <<>>)
            \o (IF "command" \in Range(output.fields)
                THEN <<"command">> ELSE <<>>)
            \o SelectSeq(output.fields, IsExcludeOrOnly)]

declare_command_args(margs, item) ==
    IF Len(margs) = 2
    THEN generate_command_args_struct(margs, item)
    ELSE ArityError

extend_command_args(margs, item) ==
    IF Len(margs) # 3
    THEN ArityError
    ELSE generate_command_args_tryinto(
             margs, generate_command_args_struct(margs, item))

(* ------------------------ the generated conversions --------------------- *)

\* strum::Display under #[strum(serialize_all = "lowercase")]
Lowercase ==
    [n \in {"AllPackages", "Crates", "Examples", "Workspace", "Major",
            "Minor", "Patch", "All", "Audit", "Format", "Lint", "Typos",
            "Install", "Generate", "Deny", "Unused", "Build", "Tests",
            "Unit", "Integration", "AddressSanitizer",
            "ControlFlowIntegrity", "HWAddressSanitizer",
            "KernelControlFlowIntegrity", "LeakSanitizer", "MemorySanitizer",
            "MemTagSanitizer", "NightlyChecks", "SafeStack",
            "ShadowCallStack", "ThreadSanitizer", "Check", "Custom",
            "Extra"} |->
        CASE n = "AllPackages" -> "allpackages"
          [] n = "Crates" -> "crates"
          [] n = "Examples" -> "examples"
          [] n = "Workspace" -> "workspace"
          [] n = "Major" -> "major"
          [] n = "Minor" -> "minor"
          [] n = "Patch" -> "patch"
          [] n = "All" -> "all"
          [] n = "Audit" -> "audit"
          [] n = "Format" -> "format"
          [] n = "Lint" -> "lint"
          [] n = "Typos" -> "typos"
          [] n = "Install" -> "install"
          [] n = "Generate" -> "generate"
          [] n = "Deny" -> "deny"
          [] n = "Unused" -> "unused"
          [] n = "Build" -> "build"
          [] n = "Tests" -> "tests"
          [] n = "Unit" -> "unit"
          [] n = "Integration" -> "integration"
          [] n = "AddressSanitizer" -> "addresssanitizer"
          [] n = "ControlFlowIntegrity" -> "controlflowintegrity"
          [] n = "HWAddressSanitizer" -> "hwaddresssanitizer"
          [] n = "KernelControlFlowIntegrity" -> "kernelcontrolflowintegrity"
          [] n = "LeakSanitizer" -> "leaksanitizer"
          [] n = "MemorySanitizer" -> "memorysanitizer"
          [] n = "MemTagSanitizer" -> "memtagsanitizer"
          [] n = "NightlyChecks" -> "nightlychecks"
          [] n = "SafeStack" -> "safestack"
          [] n = "ShadowCallStack" -> "shadowcallstack"
          [] n = "ThreadSanitizer" -> "threadsanitizer"
          [] n = "Check" -> "check"
          [] n = "Custom" -> "custom"
          [] n = "Extra" -> "extra"]

Display(variant) == Lowercase[variant.ident]

\* Result<Base, anyhow::Error> of a generated try_into; "rejected" when the
\* generated item does not type-check, so that no conversion exists
Ok(value) == [status |-> "ok", value |-> value, error |-> ""]

\* anyhow!("{} target is not supported.", self)
NotSupported(self) == [status |-> "err", value |-> "", error |-> Display(self)]

Rejected == [status |-> "rejected", value |-> "", error |-> ""]

Distinct(seq) == \A i, j \in DOMAIN seq : seq[i] = seq[j] => i = j

IsDefault(variant) == variant.default

\* the emitted enum is an enum: variant names are unique, #[default] is the
\* helper attribute of derive(Default) and marks one variant
EnumTypeChecks(output) ==
    /\ Distinct(Idents(output.variants))
    /\ LET defaults == Len(SelectSeq(output.variants, IsDefault))
       IN  IF output.derive_default THEN defaults = 1 ELSE defaults = 0

\* an arm `Sub::V => Ok(Base::V)` is a unit pattern and a unit expression:
\* it type-checks only for a variant without fields
MatchTypeChecks(output) ==
    \A k \in DOMAIN output.arms : \A i \in DOMAIN output.variants :
        output.variants[i].ident = output.arms[k] => ~output.variants[i].fields

\* the generated `match self { arms.. _ => Err(..) }` on the i-th variant
try_into(output, i) ==
    IF ~(EnumTypeChecks(output) /\ MatchTypeChecks(output))
    THEN Rejected
    ELSE IF output.variants[i].ident \in Range(output.arms)
         THEN Ok(output.variants[i].ident)
         ELSE NotSupported(output.variants[i])

\* the base arguments struct `into` as declare_command_args declares it for
\* the same presence of a target and of a subcommand
BaseStruct(margs) == Struct(margs[1], margs[2], margs[3], <<>>)

\* a struct literal type-checks when it names every field of the struct once
LiteralTypeChecks(output, margs) ==
    Range(output.literal) = Range(BaseStruct(margs).fields)

NoValue == ""

CmdArgs(target, command, exclude, only) ==
    [target |-> target, command |-> command, exclude |-> exclude,
     only |-> only]

\* Ok(Base { target: self.target.try_into()?, command:
\* self.command.try_into()?, exclude: self.exclude, only: self.only }):
\* `target` and `command` are the results of the two inner try_into, or Ok
\* of NoValue for a field the struct does not have
args_try_into(output, margs, target, command, self) ==
    IF ~LiteralTypeChecks(output, margs)
       \/ "rejected" \in {target.status, command.status}
    THEN [Rejected EXCEPT !.value = CmdArgs(NoValue, NoValue, {}, {})]
    ELSE IF target.status = "err"
         THEN [target EXCEPT !.value = CmdArgs(NoValue, NoValue, {}, {})]
         ELSE IF command.status = "err"
              THEN [command EXCEPT
                       !.value = CmdArgs(NoValue, NoValue, {}, {})]
              ELSE Ok(CmdArgs(target.value, command.value,
                              IF "exclude" \in Range(output.literal)
                              THEN self.exclude ELSE {},
                              IF "only" \in Range(output.literal)
                              THEN self.only ELSE {}))

\* no macro has been expanded: a behaviour follows one use of one macro
NoExpansion ==
    [macro |-> "", margs |-> <<>>,
     item |-> [ident |-> "", variants |-> <<>>, fields |-> <<>>],
     output |-> NoTokens]

\* no generated conversion has been called
NoConversion == [on |-> "", self |-> NoValue, res |-> Rejected]

(* ---------------------------- uses of the macros ------------------------ *)

\* variants a host declares: new names, one marked #[default], and the
\* names of a base target, of a base subcommand and of a base command
HostPool ==
    {Unit("Custom"), DefaultUnit("Extra"), Unit("All"), Unit("Workspace"),
     Tuple("Check")}

HostLists == UNION {[1..n -> HostPool] : n \in 0..MaxHost}

\* the annotated item: syn::ItemEnum (ident, variants) or syn::ItemStruct
\* (ident, fields)
Item(ident, variants, fields) ==
    [ident |-> ident, variants |-> variants, fields |-> fields]

EnumItems == {Item("MyEnum", h, <<>>) : h \in HostLists}

StructItems ==
    {Item(n, <<>>, f) : n \in {"MyCmdArgs", "TestCmdArgs"},
                        f \in {<<>>, <<"verbose">>}}

\* arguments a host writes in #[commands(..)]: known and unknown command
\* names, a path of two segments and a list
MetaPool ==
    {Meta("Path", <<"Check">>), Meta("Path", <<"Fix">>),
     Meta("Path", <<"Deploy">>), Meta("Path", <<"xtask", "Fix">>),
     Meta("List", <<"Doc">>)}

MetaLists == UNION {[1..n -> MetaPool] : n \in 0..MaxArgs}

TargetTypes == {"None", "Target", "MyTarget"}

SubcommandTypes ==
    {"None", "MySubCommand"} \cup DOMAIN get_subcommand_variant_map

BaseTypes == {"CheckCmdArgs", "TestCmdArgs", "CoverageCmdArgs"}

\* one, two or three type names, as the macros on structs can be given
TypeLists ==
    {<<t>> : t \in TargetTypes}
    \cup {<<t, s>> : t \in TargetTypes, s \in SubcommandTypes}
    \cup {<<b, t, s>> : b \in BaseTypes, t \in TargetTypes,
                        s \in SubcommandTypes}

\* no, one or two names of a subcommand enum
SubcommandLists ==
    {<<>>} \cup {<<s>> : s \in SubcommandTypes}
    \cup {<<s, t>> : s \in SubcommandTypes, t \in {"None"}}

Expansion(macro, margs, item, output) ==
    [macro |-> macro, margs |-> margs, item |-> item, output |-> output]

DeclareTargets ==
    /\ expansion = NoExpansion
    /\ \E item \in EnumItems :
          expansion' = Expansion("declare_targets", <<>>, item,
                                 declare_targets(item))
    /\ UNCHANGED <<conversion, checkVars>>

ExtendTargets ==
    /\ expansion = NoExpansion
    /\ \E item \in EnumItems :
          expansion' = Expansion("extend_targets", <<>>, item,
                                 extend_targets(item))
    /\ UNCHANGED <<conversion, checkVars>>

Commands ==
    /\ expansion = NoExpansion
    /\ \E margs \in MetaLists, item \in EnumItems :
          expansion' = Expansion("commands", margs, item,
                                 commands(margs, item))
    /\ UNCHANGED <<conversion, checkVars>>

ExtendSubcommands ==
    /\ expansion = NoExpansion
    /\ \E margs \in SubcommandLists, item \in EnumItems :
          expansion' = Expansion("extend_subcommands", margs, item,
                                 extend_subcommands(margs, item))
    /\ UNCHANGED <<conversion, checkVars>>

DeclareCommandArgs ==
    /\ expansion = NoExpansion
    /\ \E margs \in TypeLists, item \in StructItems :
          expansion' = Expansion("declare_command_args", margs, item,
                                 declare_command_args(margs, item))
    /\ UNCHANGED <<conversion, checkVars>>

ExtendCommandArgs ==
    /\ expansion = NoExpansion
    /\ \E margs \in TypeLists, item \in StructItems :
          expansion' = Expansion("extend_command_args", margs, item,
                                 extend_command_args(margs, item))
    /\ UNCHANGED <<conversion, checkVars>>

Conversion(on, self, res) == [on |-> on, self |-> self, res |-> res]

\* a value of the extended enum is converted by the generated try_into
TryInto ==
    /\ expansion.macro \in {"extend_targets", "extend_subcommands"}
    /\ expansion.output.has_tryinto
    /\ conversion.on = NoConversion.on
    /\ \E i \in DOMAIN expansion.output.variants :
          conversion' = Conversion("enum", i, try_into(expansion.output, i))
    /\ UNCHANGED <<expansion, checkVars>>

\* the host enum a struct of extend_command_args names: an extension by one
\* new variant
MyEnum == Item("MyEnum", <<Unit("Custom")>>, <<>>)

\* the values of a field of type `ty` with their conversion to the base:
\* no field, the base type itself (the blanket TryInto) or the host's enum
FieldValues(ty, extended) ==
    IF ty = "None"
    THEN {[self |-> NoValue, res |-> Ok(NoValue)]}
    ELSE IF ty \in {"MyTarget", "MySubCommand"}
         THEN {[self |-> extended.variants[i].ident,
                res |-> try_into(extended, i)] :
                  i \in DOMAIN extended.variants}
         ELSE {[self |-> extended.variants[i].ident,
                res |-> Ok(extended.variants[i].ident)] :
                  i \in 1..(Len(extended.variants) - Len(MyEnum.variants))}

SubcommandFamilies(ty) ==
    IF ty \in DOMAIN get_subcommand_variant_map
    THEN {ty}
    ELSE DOMAIN get_subcommand_variant_map

\* a value of the extended arguments struct is converted to the base struct
ArgsTryInto ==
    /\ expansion.macro = "extend_command_args"
    /\ expansion.output.has_tryinto
    /\ conversion.on = NoConversion.on
    /\ \E family \in SubcommandFamilies(expansion.margs[3]),
          exclude \in {{}, {"alpha"}}, only \in {{}, {"foo"}} :
          \E target \in FieldValues(expansion.margs[2], extend_targets(MyEnum)),
             command \in FieldValues(expansion.margs[3],
                                     extend_subcommands(<<family>>, MyEnum)) :
             LET self == CmdArgs(target.self, command.self,
                            IF expansion.margs[2] = "None" THEN {} ELSE exclude,
                            IF expansion.margs[2] = "None" THEN {} ELSE only)
             IN  conversion' =
                    Conversion("args", self,
                               args_try_into(expansion.output, expansion.margs,
                                             target.res, command.res, self))
    /\ UNCHANGED <<expansion, checkVars>>

MacroInit ==
    /\ args = [command |-> "All", target |-> "Workspace", exclude |-> {},
               only |-> {}]
    /\ answer = None
    /\ stack = <<>>
    /\ log = <<>>
    /\ result = Running
    /\ ANSWER = "unset"
    /\ expansion = NoExpansion
    /\ conversion = NoConversion

MacroNext ==
    \/ DeclareTargets
    \/ ExtendTargets
    \/ Commands
    \/ ExtendSubcommands
    \/ DeclareCommandArgs
    \/ ExtendCommandArgs
    \/ TryInto
    \/ ArgsTryInto

MacroSpec == MacroInit /\ [][MacroNext]_vars

(* ------------------------- reading the log ------------------------------ *)

\* an invocation of the External Process Runner (the tool installation too)
Ext(e) ==
    e.ev \in {"ensure_cargo_crate_is_installed", "run_process",
              "run_process_for_workspace", "run_process_for_package"}

\* the external step of a leaf proper (not the installation of its tool)
IsRun(e) ==
    e.ev \in {"run_process", "run_process_for_workspace",
              "run_process_for_package"}

Mutating == {"Audit", "Format", "Lint", "Typos"}

Done == stack = <<>>

IsPrefix(s, t) == Len(s) <= Len(t) /\ \A i \in 1..Len(s) : s[i] = t[i]

LeafOf(seq) == [i \in 1..Len(seq) |-> seq[i].leaf]

ScopeOf(seq) == [i \in 1..Len(seq) |-> seq[i].scope]

Max(S) == CHOOSE x \in S : \A y \in S : y <= x

Asks == {i \in DOMAIN log : log[i].ev = "ask_once"}

Prompts == {i \in DOMAIN log : log[i].ev = "prompt"}

\* an event that fixes the confirmation of what follows it: the reply of
\* ask_once, or a call that is handed Some(b)
Decides(e) ==
    \/ e.ev = "ask_once"
    \/ e.ev \in {"handle_command", "run_sub"} /\ e.res # None

\* the confirmation in force when log[i] happens
InForce(i) ==
    LET before == {j \in 1..(i - 1) : Decides(log[j])}
    IN IF before = {} THEN None ELSE log[Max(before)].res

\* the confirmation the whole call tree acts on, once it is resolved
Effective == IF Asks = {} THEN answer ELSE log[Max(Asks)].res

(* ------------------------------- claims --------------------------------- *)

\* C1: an external invocation (tool installation included) made for a
\* mutating leaf Audit, Format, Lint or Typos happens only while the
\* confirmation in force for that leaf, prompted or supplied, is true.
C1_MutatingOnlyWhenConfirmed ==
    \A i \in DOMAIN log :
        Ext(log[i]) /\ log[i].leaf \in Mutating => InForce(i) = Some(TRUE)

C1_Witness ==
    /\ answer = None
    /\ Done
    /\ \E i \in DOMAIN log :
          /\ log[i].ev = "run_process_for_package"
          /\ log[i].leaf = "Lint"
    /\ \E i \in DOMAIN log :
          log[i].ev = "prompt" /\ log[i].res = Some(TRUE)

\* C2: in the call tree of a top-level handle_command(args, None) ask_once
\* is called at most once, and never when the subcommand is Compile.
C2_AskedAtMostOnce ==
    answer = None =>
        /\ Cardinality(Asks) <= 1
        /\ args.command = "Compile" => Asks = {}

C2_Witness ==
    /\ answer = None
    /\ args.command = "Format"
    /\ args.target = "AllPackages"
    /\ result = OkResult
    /\ Cardinality(Asks) = 1
    /\ Cardinality({i \in DOMAIN log : log[i].ev = "run_sub"}) = 2

\* C3 (as claimed): a call handed Some(b) never calls ask_once and acts on b:
\* with Some(false) nothing runs, with Some(true) the action runs.
C3_IncomingAnswerIsFinal ==
    answer # None =>
        /\ Asks = {}
        /\ answer = Some(FALSE) => \A i \in DOMAIN log : ~Ext(log[i])
        /\ (answer = Some(TRUE) /\ Done /\ args.target = "Workspace")
              => \E i \in DOMAIN log : Ext(log[i])

IsLeafCall(e) == e.ev = "handle_command" /\ e.depth = 1

\* C4: handle_command(All, None) prompts exactly once, before any leaf is
\* dispatched and before any external invocation, and every leaf is
\* dispatched with Some(a), a being the reply to that prompt.
C4_AllPromptsOnceThenPropagates ==
    (args.command = "All" /\ answer = None /\ log # <<>>) =>
        /\ Cardinality(Prompts) = 1
        /\ Cardinality(Asks) = 1
        /\ \A i \in DOMAIN log :
              IsLeafCall(log[i]) \/ Ext(log[i]) =>
                 \E j \in Prompts : j < i
        /\ \A i \in DOMAIN log :
              IsLeafCall(log[i]) =>
                 \A j \in Prompts : log[i].res = log[j].res

C4_Witness ==
    /\ args.command = "All"
    /\ answer = None
    /\ result = OkResult
    /\ Len(SelectSeq(log, IsLeafCall)) = 5
    /\ \E j \in Prompts : log[j].res = Some(TRUE)
    /\ \E i \in DOMAIN log : Ext(log[i])

\* the confirmation is false: supplied as Some(false), or declined at the
\* prompt of a call that was handed None
ConfirmationFalse ==
    \/ answer = Some(FALSE)
    \/ answer = None /\ \E i \in Asks : log[i].res = Some(FALSE)

\* C5 (as claimed): when the confirmation is false, declined at the prompt or
\* supplied as Some(false), no external invocation occurs and handle_command
\* returns success.
C5_DeclinedRunsNothing ==
    ConfirmationFalse =>
        /\ \A i \in DOMAIN log : ~Ext(log[i])
        /\ Done => result = OkResult

Failed(e) == Ext(e) /\ e.res = "err"

\* C6: once an external invocation has returned an error no further external
\* invocation is issued, and the top-level result is that first error.
C6_FailFast ==
    /\ \A i, j \in DOMAIN log : i < j /\ Failed(log[i]) => ~Ext(log[j])
    /\ \A i \in DOMAIN log :
          Failed(log[i]) =>
             /\ Done
             /\ result = Err(log[i].leaf, log[i].scope)
    /\ result.status = "err" => \E i \in DOMAIN log : Failed(log[i])

C6_Witness ==
    /\ args.command = "All"
    /\ args.target = "AllPackages"
    /\ result = Err("Compile", "alpha")
    /\ Done
    /\ \E i \in DOMAIN log : Failed(log[i]) /\ log[i].scope = "alpha"

IsPackageRun(e) == e.ev = "run_process_for_package"

\* position of a package in the enumeration of its category
MemberIndex(name) ==
    LET all == get_workspace_members("Crates")
                 \o get_workspace_members("Examples")
    IN CHOOSE k \in DOMAIN all : all[k] = name

SameCategory(a, b) ==
    \E t \in {"Crates", "Examples"} :
        {a, b} \subseteq Range(get_workspace_members(t))

\* C7: All dispatches the leaves Audit, Compile, Format, Lint, Typos in that
\* declared order, each once and never All itself: at every moment the leaves
\* dispatched so far are a prefix of that list, and all five have been
\* dispatched when the call returns Ok (after an error the remaining leaves
\* are not dispatched: C6); the packages of one category run in the order of
\* get_workspace_members.
C7_DeclaredOrder ==
    /\ \A i \in DOMAIN log : IsLeafCall(log[i]) => args.command = "All"
    /\ \A i \in DOMAIN log :
          log[i].ev = "handle_command" /\ log[i].leaf = "All" => i = 1
    /\ args.command = "All" =>
          /\ IsPrefix(LeafOf(SelectSeq(log, IsLeafCall)),
                      <<"Audit", "Compile", "Format", "Lint", "Typos">>)
          /\ result = OkResult =>
                LeafOf(SelectSeq(log, IsLeafCall))
                   = <<"Audit", "Compile", "Format", "Lint", "Typos">>
    /\ \A i, j \in DOMAIN log :
          (/\ i < j
           /\ IsPackageRun(log[i])
           /\ IsPackageRun(log[j])
           /\ log[i].leaf = log[j].leaf
           /\ SameCategory(log[i].scope, log[j].scope))
             => MemberIndex(log[i].scope) < MemberIndex(log[j].scope)

C7_Witness ==
    /\ args.command = "All"
    /\ args.target = "Crates"
    /\ result = OkResult
    /\ Len(SelectSeq(log, IsLeafCall)) = 5
    /\ \E i, j \in DOMAIN log :
          /\ i < j
          /\ IsPackageRun(log[i]) /\ log[i].leaf = "Lint"
          /\ IsPackageRun(log[j]) /\ log[j].leaf = "Lint"

\* the scenario of C8, with the confirmation accepted at the prompt
Scenario8 ==
    /\ args = [command |-> "All", target |-> "Workspace", exclude |-> {},
               only |-> {"foo"}]
    /\ answer = None
    /\ \E j \in Prompts : log[j].res = Some(TRUE)

\* C8 (as claimed): in the scenario All / Workspace / only = ["foo"] a
\* filter-ignored warning is emitted and the external steps are exactly
\* Audit, Format, Lint, Typos, in that order, up to the first failure.
C8_StepsAsClaimed ==
    Scenario8 =>
        /\ \E w \in DOMAIN log : log[w].ev = "warn"
        /\ IsPrefix(LeafOf(SelectSeq(log, IsRun)),
                    <<"Audit", "Format", "Lint", "Typos">>)
        /\ result = OkResult =>
              LeafOf(SelectSeq(log, IsRun))
                 = <<"Audit", "Format", "Lint", "Typos">>

\* C8 (amended): in that scenario the exclude-and-only-ignored warning is
\* emitted once, before any external invocation, and the external steps are
\* exactly Audit, Compile, Format, Lint, Typos, in that order, each against
\* the whole workspace, nothing running after the first failure.
C8_StepsWithCompile ==
    Scenario8 =>
        /\ Cardinality({w \in DOMAIN log : log[w].ev = "warn"}) = 1
        /\ \E w \in DOMAIN log :
              /\ log[w].ev = "warn"
              /\ log[w].res = WARN_IGNORED_EXCLUDE_AND_ONLY_ARGS
              /\ \A i \in DOMAIN log : Ext(log[i]) => w < i
        /\ IsPrefix(LeafOf(SelectSeq(log, IsRun)),
                    <<"Audit", "Compile", "Format", "Lint", "Typos">>)
        /\ result = OkResult =>
              LeafOf(SelectSeq(log, IsRun))
                 = <<"Audit", "Compile", "Format", "Lint", "Typos">>
        /\ \A i \in DOMAIN log :
              IsRun(log[i]) =>
                 /\ log[i].scope = "Workspace"
                 /\ log[i].ev # "run_process_for_package"
        /\ \A i \in DOMAIN log : Failed(log[i]) => i = Len(log) /\ Done

C8_Witness ==
    /\ Scenario8
    /\ result = OkResult
    /\ LeafOf(SelectSeq(log, IsRun))
          = <<"Audit", "Compile", "Format", "Lint", "Typos">>

IsSub(e) == e.ev = "run_sub"

IsCompileSub(e) == IsSub(e) /\ e.leaf = "Compile"

IsFormatSub(e) == IsSub(e) /\ e.leaf = "Format"

IsLintSub(e) == IsSub(e) /\ e.leaf = "Lint"

\* the sub-targets leaf has been dispatched to so far, in order
Subs(leaf) ==
    ScopeOf(CASE leaf = "Compile" -> SelectSeq(log, IsCompileSub)
              [] leaf = "Format" -> SelectSeq(log, IsFormatSub)
              [] leaf = "Lint" -> SelectSeq(log, IsLintSub))

\* leaf is part of the top-level call and its action is not declined
Proceeds(leaf) ==
    /\ args.command \in {leaf, "All"}
    /\ IF leaf = "Compile" THEN Effective # Some(FALSE)
       ELSE Effective = Some(TRUE)

\* C9: for Compile, Format and Lint the target AllPackages expands into the
\* sub-targets Crates then Examples and no other: the sub-targets dispatched
\* so far are a prefix of <<Crates, Examples>>, each dispatch carries the
\* exclude and only sets of the call, and both have been dispatched once when
\* a call that was not declined returns Ok; no other target is expanded.
C9_AllPackagesExpansion ==
    /\ \A i \in DOMAIN log :
          IsSub(log[i]) =>
             /\ args.target = "AllPackages"
             /\ log[i].leaf \in {"Compile", "Format", "Lint"}
             /\ log[i].scope \notin {"Workspace", "AllPackages"}
             /\ log[i].exclude = args.exclude
             /\ log[i].only = args.only
    /\ \A leaf \in {"Compile", "Format", "Lint"} :
          /\ IsPrefix(Subs(leaf), <<"Crates", "Examples">>)
          /\ (args.target = "AllPackages" /\ result = OkResult
                /\ Proceeds(leaf))
                => Subs(leaf) = <<"Crates", "Examples">>

C9_Witness ==
    /\ args.command = "Lint"
    /\ args.target = "AllPackages"
    /\ args.exclude = {"alpha"}
    /\ args.only = {"alpha", "ex1"}
    /\ result = OkResult
    /\ Subs("Lint") = <<"Crates", "Examples">>
    /\ \E i \in DOMAIN log : IsPackageRun(log[i]) /\ log[i].scope = "ex1"

IsWorkspaceRun(e) == e.ev = "run_process_for_workspace"

WorkspaceRuns(leaf) ==
    {i \in DOMAIN log : IsWorkspaceRun(log[i]) /\ log[i].leaf = leaf}

\* C10 (as claimed): at target Workspace the invocation issued for Compile,
\* Format and Lint is the same for every exclude and only: no filter set is
\* handed to the workspace runner.
C10_NoFilterReachesRunner ==
    \A i \in DOMAIN log :
        IsWorkspaceRun(log[i]) =>
           log[i].exclude = {} /\ log[i].only = {}

\* C10 (amended): at target Workspace one whole-workspace invocation is
\* issued per leaf and no package is run; the only set is never handed to the
\* runner; Format and Lint hand it an empty exclude list, whereas Compile
\* hands it the exclude set of the call.
C10_OnlyCompileHandsExclude ==
    /\ \A i \in DOMAIN log :
          IsWorkspaceRun(log[i]) =>
             /\ args.target = "Workspace"
             /\ log[i].only = {}
             /\ log[i].exclude
                   = (IF log[i].leaf = "Compile" THEN args.exclude ELSE {})
    /\ args.target = "Workspace" =>
          \A i \in DOMAIN log : log[i].ev \notin
                {"run_process_for_package", "skip", "run_sub"}
    /\ \A leaf \in {"Compile", "Format", "Lint"} :
          /\ Cardinality(WorkspaceRuns(leaf)) <= 1
          /\ (args.target = "Workspace" /\ result = OkResult
                /\ Proceeds(leaf))
                => Cardinality(WorkspaceRuns(leaf)) = 1

C10_Witness ==
    /\ args.command = "Compile"
    /\ args.target = "Workspace"
    /\ args.exclude = {"alpha"}
    /\ args.only = {"beta"}
    /\ result = OkResult
    /\ \E i \in WorkspaceRuns("Compile") : log[i].exclude = {"alpha"}

IsWarn(e) == e.ev = "warn"

ResOf(seq) == [i \in 1..Len(seq) |-> seq[i].res]

\* the warnings C11 expects of a top-level call handed None
ExpectedWarnings ==
    IF args.target = "Workspace" /\ args.command # "Compile"
       /\ (args.exclude # {} \/ args.only # {})
    THEN <<WARN_IGNORED_EXCLUDE_AND_ONLY_ARGS>>
    ELSE IF args.target = "Workspace" /\ args.command = "Compile"
            /\ args.only # {}
         THEN <<WARN_IGNORED_ONLY_ARGS>>
         ELSE <<>>

\* C11: a top-level handle_command(args, None) warns that exclude and only
\* are ignored iff the target is Workspace, the subcommand is not Compile and
\* one of them is non-empty; that only is ignored iff the target is
\* Workspace, the subcommand is Compile and only is non-empty; and not
\* otherwise.  At most one warning is emitted, by the top-level call and never
\* by a leaf of All, and the call goes on after it: the warning is emitted
\* right after the entry of the call, it is no error, and the subcommand is
\* dispatched with the arguments of the call.
C11_WarningPolicy ==
    /\ [](answer = None /\ log # <<>> =>
            /\ ResOf(SelectSeq(log, IsWarn)) = ExpectedWarnings
            /\ \A i \in DOMAIN log :
                  IsWarn(log[i]) => i = 2 /\ log[i].depth = 0)
    /\ [][(answer = None /\ log = <<>>) =>
            /\ result' = Running
            /\ \A k \in DOMAIN stack' :
                  /\ stack'[k].target = args.target
                  /\ stack'[k].exclude = args.exclude
                  /\ stack'[k].only = args.only
            /\ IF args.command = "All"
               THEN [k \in DOMAIN stack' |-> stack'[k].command]
                       = <<"Audit", "Compile", "Format", "Lint", "Typos">>
               ELSE /\ Len(stack') = 1
                    /\ stack'[1].pc = RunPc(args.command)
                    /\ stack'[1].answer = None]_vars

C11_Witness ==
    /\ answer = None
    /\ args.command = "Compile"
    /\ args.target = "Workspace"
    /\ args.exclude = {"alpha"}
    /\ args.only = {"foo"}
    /\ result = OkResult
    /\ ResOf(SelectSeq(log, IsWarn)) = <<WARN_IGNORED_ONLY_ARGS>>

IsCompileRun(e) == IsPackageRun(e) /\ e.leaf = "Compile"

IsFormatRun(e) == IsPackageRun(e) /\ e.leaf = "Format"

IsLintRun(e) == IsPackageRun(e) /\ e.leaf = "Lint"

\* the packages leaf has run so far, in order
PackageRuns(leaf) ==
    ScopeOf(CASE leaf = "Compile" -> SelectSeq(log, IsCompileRun)
              [] leaf = "Format" -> SelectSeq(log, IsFormatRun)
              [] leaf = "Lint" -> SelectSeq(log, IsLintRun))

\* the filter decision as C12 states it, on the filters of the call
KeptByFilters(m) ==
    (args.only = {} \/ m \in args.only) /\ m \notin args.exclude

\* C12: for target Crates or Examples and a leaf Compile, Format or Lint the
\* external step runs for the members m of that category with
\* (only is empty or m in only) and m not in exclude, for no other, in the
\* enumeration order: the packages run so far are a prefix of the kept
\* members, and all of them have run once when a call that was not declined
\* returns Ok.
C12_FilteredMembersRun ==
    args.target \in {"Crates", "Examples"} =>
        \A leaf \in {"Compile", "Format", "Lint"} :
            /\ IsPrefix(PackageRuns(leaf),
                        SelectSeq(get_workspace_members(args.target),
                                  KeptByFilters))
            /\ (result = OkResult /\ Proceeds(leaf)) =>
                  PackageRuns(leaf)
                     = SelectSeq(get_workspace_members(args.target),
                                 KeptByFilters)

C12_Witness ==
    /\ args.command = "Compile"
    /\ args.target = "Crates"
    /\ args.exclude = {"alpha"}
    /\ args.only = {"alpha", "beta"}
    /\ result = OkResult
    /\ PackageRuns("Compile") = <<"beta">>

IsGroupEvent(e) == e.ev \in {"group", "endgroup"}

\* the group! / endgroup! calls made so far, in order
GroupCalls == SelectSeq(log, IsGroupEvent)

\* C13 (as claimed): groups are opened and closed in strict pairs, on success
\* and on failure: group! and endgroup! alternate, every group opened by a
\* step is closed when the step ends, and a group is opened only around an
\* actual external invocation.
C13_StrictGroupPairs ==
    /\ \A k \in DOMAIN GroupCalls :
          GroupCalls[k].ev = (IF k % 2 = 1 THEN "group" ELSE "endgroup")
    /\ Len(GroupCalls) % 2 = 0
    /\ \A i \in DOMAIN log :
          log[i].ev = "group" => i < Len(log) /\ Ext(log[i + 1])

(* ---- claims on the macros: read `expansion` and `conversion` ---- *)

Output == expansion.output

\* number of variants the macro wrote before the host's own
BaseLen == Len(Output.variants) - Len(expansion.item.variants)

HostDeclaresDefault == HasDefault(expansion.item.variants)

\* the host declares new names only, none of them twice
HostNamesAreNew ==
    /\ Distinct(Idents(expansion.item.variants))
    /\ \A i \in 1..BaseLen, j \in DOMAIN Output.variants :
          j > BaseLen => Output.variants[i].ident # Output.variants[j].ident

\* C14: for an enum extended by extend_targets or extend_subcommands with
\* new host names, the generated try_into returns Ok of the base variant of
\* the same name for each base variant, and for each host variant an error
\* that carries the display name of the variant.
C14_DowncastIffBase ==
    (conversion.on = "enum" /\ HostNamesAreNew /\ ~HostDeclaresDefault) =>
        LET self == Output.variants[conversion.self]
        IN  IF conversion.self <= BaseLen
            THEN conversion.res = Ok(self.ident)
            ELSE /\ conversion.res.status = "err"
                 /\ conversion.res.error = Lowercase[self.ident]

\* C15: an emitted enum has at most one variant marked #[default], and the
\* default of the base variants, when there is one, is the only default of
\* the emitted enum.
C15_AtMostOneDefault ==
    Output.has_enum =>
        LET defaults == {i \in DOMAIN Output.variants :
                            Output.variants[i].default}
        IN  /\ Cardinality(defaults) <= 1
            /\ \A i \in 1..BaseLen :
                  Output.variants[i].default => defaults = {i}

\* C16: extend_targets, extend_subcommands and commands emit no enum in
\* which a host variant has the name of a base variant: such a use ends in
\* a compile_error.
C16_CollisionRejected ==
    expansion.macro \in {"extend_targets", "extend_subcommands", "commands"}
    => \/ Output.compile_error /\ ~Output.has_enum
       \/ \A i \in 1..BaseLen, j \in DOMAIN Output.variants :
             j > BaseLen => Output.variants[i].ident # Output.variants[j].ident

\* the command an argument of #[commands(..)] names
Listed(meta) == meta.path[Len(meta.path)]

\* C17: extend_targets and extend_subcommands emit the base variants in
\* base order and then the host variants in declared order; commands either
\* rejects the use or emits one variant for each listed argument, in the
\* order listed, and then the host variants.
C17_BaseFirstNoneDropped ==
    /\ (expansion.macro = "extend_targets" /\ Output.has_enum) =>
          Output.variants = TargetVariants \o expansion.item.variants
    /\ (expansion.macro = "extend_subcommands" /\ Output.has_enum) =>
          Output.variants = get_subcommand_variant_map[expansion.margs[1]]
                                \o expansion.item.variants
    /\ (expansion.macro = "commands" /\ ~Output.compile_error) =>
          Idents(Output.variants) =
              [k \in DOMAIN expansion.margs |-> Listed(expansion.margs[k])]
                  \o Idents(expansion.item.variants)

\* the use names an item that is not in the map the macro looks it up in
UnknownCommand ==
    /\ expansion.macro = "commands"
    /\ \E k \in DOMAIN expansion.margs :
          /\ expansion.margs[k].kind = "Path"
          /\ Len(expansion.margs[k].path) = 1
          /\ expansion.margs[k].path[1] \notin DOMAIN variant_map

UnknownBaseSubcommand ==
    /\ expansion.macro = "extend_subcommands"
    /\ Len(expansion.margs) = 1
    /\ expansion.margs[1] \notin DOMAIN get_subcommand_variant_map

UnknownDeclaredSubcommand ==
    /\ expansion.macro = "declare_command_args"
    /\ Len(expansion.margs) = 2
    /\ expansion.margs[2] \notin
          DOMAIN get_subcommand_variant_map \cup {"None"}

EmitsNothing ==
    ~Output.has_enum /\ ~Output.has_struct /\ ~Output.has_tryinto

RejectedListing(names) ==
    /\ Output.compile_error
    /\ Output.possible = names
    /\ EmitsNothing

\* C18 as stated: each of the three uses that name an unknown item is
\* rejected with a compile_error listing all valid names and emits nothing.
C18_UnknownAlwaysRejected ==
    /\ UnknownCommand => RejectedListing(DOMAIN variant_map)
    /\ UnknownBaseSubcommand =>
          RejectedListing(DOMAIN get_subcommand_variant_map)
    /\ UnknownDeclaredSubcommand =>
          RejectedListing(DOMAIN get_subcommand_variant_map)

\* C18: commands given an unknown command identifier and extend_subcommands
\* given an unknown base enum are rejected with a compile_error that names
\* the unknown item and lists all valid names, and emit nothing;
\* declare_command_args given a subcommand type that is not in the map
\* raises no error: it emits the struct with its `command` field and no
\* enum.
C18_UnknownRejectedButDeclared ==
    /\ UnknownCommand =>
          /\ RejectedListing(DOMAIN variant_map)
          /\ Output.unknown \notin DOMAIN variant_map
          /\ \E k \in DOMAIN expansion.margs :
                expansion.margs[k].path = <<Output.unknown>>
    /\ UnknownBaseSubcommand =>
          /\ RejectedListing(DOMAIN get_subcommand_variant_map)
          /\ Output.unknown = expansion.margs[1]
    /\ UnknownDeclaredSubcommand =>
          /\ ~Output.compile_error
          /\ Output.has_struct
          /\ ~Output.has_enum
          /\ "command" \in Range(Output.fields)

C18_Witness ==
    /\ expansion.macro = "commands"
    /\ expansion.margs = <<Meta("Path", <<"Check">>), Meta("Path", <<"Deploy">>)>>
    /\ Output.compile_error
    /\ Output.unknown = "Deploy"
    /\ "Vulnerabilities" \in Output.possible

HostOnly(ident) == ident \in Range(Idents(MyEnum.variants))

\* C19: the try_into generated by extend_command_args returns Ok of the
\* base struct with the same target, subcommand, exclude and only when
\* target and subcommand are base variants (or absent), and otherwise the
\* error of the first downcast that fails.
C19_ArgsDowncast ==
    conversion.on = "args" =>
        LET self == conversion.self
        IN  IF ~HostOnly(self.target) /\ ~HostOnly(self.command)
            THEN conversion.res = Ok(self)
            ELSE /\ conversion.res.status = "err"
                 /\ conversion.res.error =
                       Lowercase[IF HostOnly(self.target)
                                 THEN self.target ELSE self.command]

\* C20: every handle_command invocation ends, with Ok or with the first
\* error, provided every prompt and external step returns; All is entered
\* only by the top-level call, a sub-target of AllPackages is never
\* AllPackages again, and no call is nested deeper than two levels below the
\* top-level call.
C20_Terminates ==
    /\ <>(Done /\ result.status \in {"ok", "err"})
    /\ [](\A k \in DOMAIN stack :
             /\ stack[k].depth <= 2
             /\ stack[k].command = "All" => stack[k].depth = 0
             /\ stack[k].sub => stack[k].target \in {"Crates", "Examples"})

C20_Witness ==
    /\ args.command = "All"
    /\ args.target = "AllPackages"
    /\ Done
    /\ result = OkResult
    /\ Subs("Lint") = <<"Crates", "Examples">>

IsAuditEvent(e) == e.leaf = "Audit"

IsTyposEvent(e) == e.leaf = "Typos"

\* what the leaf Audit or Typos did, in program order
ToolLog(leaf) ==
    IF leaf = "Audit" THEN SelectSeq(log, IsAuditEvent)
    ELSE SelectSeq(log, IsTyposEvent)

IsInstall(e) == e.ev = "ensure_cargo_crate_is_installed"

IsInstalled(e) == IsInstall(e) /\ e.res = "ok"

\* C21: Audit and Typos are never expanded: each is dispatched at most
\* once, its only external run is one run_process on the whole workspace
\* without exclude or only, issued exactly when its tool was installed,
\* never a run per package or a dispatch per sub-target; and a confirmed
\* leaf of a call that returns Ok has run exactly once, whatever the target,
\* exclude and only are.
C21_ToolRunsOnce ==
    \A leaf \in {"Audit", "Typos"} :
        LET runs == SelectSeq(ToolLog(leaf), IsRun)
        IN  /\ Len(runs) <= 1
            /\ Len(SelectSeq(ToolLog(leaf), IsInstall)) <= 1
            /\ Len(runs) = Len(SelectSeq(ToolLog(leaf), IsInstalled))
            /\ \A i \in DOMAIN runs :
                  /\ runs[i].ev = "run_process"
                  /\ runs[i].scope = "Workspace"
                  /\ runs[i].exclude = {} /\ runs[i].only = {}
            /\ \A i \in DOMAIN log :
                  log[i].leaf = leaf => ~IsSub(log[i])
            /\ (Done /\ result = OkResult /\ Proceeds(leaf)) => Len(runs) = 1

C21_Witness ==
    /\ args.command = "All"
    /\ args.target = "AllPackages"
    /\ args.exclude = {"alpha"}
    /\ args.only = {"beta", "ex1"}
    /\ Done
    /\ result = OkResult
    /\ Len(SelectSeq(ToolLog("Audit"), IsRun)) = 1
    /\ Len(SelectSeq(ToolLog("Typos"), IsRun)) = 1
    /\ Subs("Format") = <<"Crates", "Examples">>

Init ==
    /\ args \in [command : Range(CheckCommandIter), target : Range(TargetIter),
                 exclude : Filters, only : Filters]
    /\ answer \in OptionBool
    /\ stack = <<Frame("handle_command", args.command, args.target,
                       args.exclude, args.only, answer, 0, FALSE, <<>>)>>
    /\ log = <<>>
    /\ result = Running
    /\ ANSWER = "unset"
    /\ expansion = NoExpansion
    /\ conversion = NoConversion

Next ==
    \/ HandleCommand
    \/ RunAudit
    \/ RunCompile
    \/ RunFormat
    \/ RunLint
    \/ RunTypos
    \/ CompileMember
    \/ FormatMember
    \/ LintMember

Spec == Init /\ [][Next]_vars

\* the call tree runs on one thread and every prompt and external step
\* returns: a step that can be taken is taken
FairSpec == Spec /\ WF_vars(Next)

====
